---- MODULE Spec2Model ----
(***************************************************************************)
(* crashdetect: the call-stack tracker, the intercepted call wrappers, the *)
(* heap release validator, the run-time error classifier and the system    *)
(* fault handlers of src/src/crashdetect.cpp, as one state machine.        *)
(*                                                                         *)
(* The host drives a single thread.  A wrapper that delegates to code      *)
(* which can call back into the plugin (DoAmxExec -> amx_Exec,             *)
(* DoAmxCallback -> prevCallback_) is two steps: the part before the       *)
(* delegated call and the part after it.  `ctl` is the C++ call stack of   *)
(* wrapper activations between the two.                                    *)
(***************************************************************************)
EXTENDS Integers, Sequences, FiniteSets, TLC

VARIABLES
    npCalls_,      \* std::stack<NPCall*>: sequence of call records, top = last
    errorCaught_,  \* the "already classified" latch
    instances_,    \* InstanceMap: the crashdetect records, each under its handle
    ctl,           \* wrapper activations whose delegated call has not ended
    die_on_error,  \* server.cfg option read by DieOrContinue
    run_on_error,  \* server.cfg option read by HandleExecError
    status,        \* whether the process is alive, and its exit status if not
    seen,          \* history: the classifier has run since the outermost
                   \* activation in flight was entered
    ev,            \* the operation that ran last and what it returned
    out            \* the effects of that operation, in order: log lines and
                   \* the external calls it made

vars == <<npCalls_, errorCaught_, instances_, ctl, die_on_error, run_on_error,
          status, seen, ev, out>>

-----------------------------------------------------------------------------
(* Bounds of the model *)

MaxDepth     == 3   \* wrapper activations in flight, and records on npCalls_
MaxAddr      == 2   \* heap addresses 0..MaxAddr (hlw, stk and released address)
MaxNest      == 5   \* calls in flight when a backtrace is taken of a given nesting
MaxStale     == 2   \* the records on npCalls_ when a fault is taken with records left behind

(* Program constants *)

AMX_EXEC_GDK     == -10
AMX_ERR_NONE     == 0
AMX_ERR_STACKERR == 3
AMX_ERR_BOUNDS   == 4
AMX_ERR_INVINSTR == 6
AMX_ERR_STACKLOW == 7
AMX_ERR_HEAPLOW  == 8
AMX_ERR_CALLBACK == 9
AMX_ERR_DIVIDE   == 11
AMX_ERR_NOTFOUND == 19
AMX_ERR_INDEX    == 20
AMX_ERR_INIT     == 22
EXIT_FAILURE     == 1

AMXs        == {1, 2}
PublicIdx   == {0, AMX_EXEC_GDK}
NativeIdx   == {0}
Cips        == {0, 1}
Addrs       == -1..MaxAddr
(* The codes amx_Exec fails with: one of each kind the classifier tells    *)
(* apart (read operands and backtrace; one dump line and backtrace;         *)
(* backtrace alone; a list and no backtrace; no backtrace).                 *)
ErrorCodes  == {AMX_ERR_BOUNDS, AMX_ERR_HEAPLOW, AMX_ERR_DIVIDE,
                AMX_ERR_NOTFOUND, AMX_ERR_INDEX, AMX_ERR_INIT}
RetCodes    == {AMX_ERR_NONE} \cup ErrorCodes
(* Every code the classifier names, and one it does not *)
AllErrorCodes == ErrorCodes \cup {AMX_ERR_STACKERR, AMX_ERR_INVINSTR,
                                  AMX_ERR_STACKLOW, AMX_ERR_CALLBACK}
CallbackCodes == {AMX_ERR_NONE, AMX_ERR_NOTFOUND}
ReleaseCodes  == {AMX_ERR_NONE, AMX_ERR_HEAPLOW}
Commands    == {"", "cmd"}
SysFrames   == {1}         \* the number of frames the native unwinder yields
Walks       == {0, 2}      \* the number of frames a walk of the VM stack yields

-----------------------------------------------------------------------------
(* Call records (NPCall) *)

Native(amx, index)      == [type |-> "native", amx |-> amx, index |-> index, cip |-> 0]
Public(amx, index, cip) == [type |-> "public", amx |-> amx, index |-> index, cip |-> cip]

NPCalls == {Native(a, i) : a \in AMXs, i \in NativeIdx}
             \cup {Public(a, i, c) : a \in AMXs, i \in PublicIdx, c \in Cips}

IsNative(call) == call.type = "native"
IsPublic(call) == call.type = "public"

(* A tracker that keeps its records ordered by instance *)
PushByInstance(s, x) ==
    LET at == Cardinality({p \in 1..Len(s) : s[p].amx <= x.amx})
    IN  SubSeq(s, 1, at) \o <<x>> \o SubSeq(s, at + 1, Len(s))

(* std::stack over a sequence *)
Push(s, x) == Append(s, x)
Pop(s)     == SubSeq(s, 1, Len(s) - 1)
Top(s)     == s[Len(s)]

(* One effect of an operation: a log line or an external call. *)
Ln(k, s, a, b) == [k |-> k, s |-> s, a |-> a, b |-> b]

(* The name the path finder resolved for a script; empty when unresolved. *)
AmxName(a) == IF a = 1 THEN "a.amx" ELSE ""

(* The process: alive, ended by std::exit(code), or killed by a signal      *)
(* (abort() of a failed assert, or a crash).                                *)
Running      == [alive |-> TRUE, how |-> "running", code |-> 0]
Exited(code) == [alive |-> FALSE, how |-> "exit", code |-> code]
Killed(how)  == [alive |-> FALSE, how |-> how, code |-> 0]

(* The operation that ran last: its name, instance and index (or address),  *)
(* the code it returned, whether it ran the classifier, whether the         *)
(* classifier had run earlier while it was in flight, and the values it     *)
(* read.                                                                    *)
Ev(op, a, index, code, classified, before, arg) ==
    [op |-> op, amx |-> a, index |-> index, code |-> code,
     classified |-> classified, seen |-> before, arg |-> arg]
NoEv == Ev("none", 0, 0, 0, FALSE, FALSE, <<>>)

-----------------------------------------------------------------------------
(* The object a record of npCalls_ points to is a local of the wrapper that  *)
(* pushed it.  The record at position p is alive while an activation of ctl  *)
(* owns position p; a record left behind by an activation that is gone is a  *)
(* dangling pointer, and reading through it yields any record.               *)

Live(p) == \E i \in 1..Len(ctl) : ctl[i].slot = p

Reads(p) == IF Live(p) THEN {npCalls_[p]} ELSE NPCalls

RECURSIVE ViewsOf(_)
ViewsOf(n) == IF n = 0 THEN {<<>>}
              ELSE {Append(v, x) : v \in ViewsOf(n - 1), x \in Reads(n)}

(* What the records of npCalls_ can read as *)
Views == ViewsOf(Len(npCalls_))

(* An activation of a wrapper: the function, its instance and index, the   *)
(* position of its record on npCalls_ and, for DoAmxCallback, the latch     *)
(* when it was entered.                                                     *)
Frame(fn, call, slot, latch0) ==
    [fn |-> fn, amx |-> call.amx, index |-> call.index, cip |-> call.cip,
     slot |-> slot, latch0 |-> latch0]

(* The record an activation pushed *)
RecordOf(f) == IF f.fn = "DoAmxCallback" THEN Native(f.amx, f.index)
               ELSE Public(f.amx, f.index, f.cip)

Return(c) == SubSeq(c, 1, Len(c) - 1)

HostRuns   == ctl = <<>>
NativeRuns == ctl # <<>> /\ ctl[Len(ctl)].fn = "DoAmxCallback"
VmRuns     == ctl # <<>> /\ ctl[Len(ctl)].fn = "DoAmxExec"

-----------------------------------------------------------------------------
Init ==
    /\ npCalls_ = <<>>
    /\ errorCaught_ = FALSE
    /\ instances_ = {}
    /\ ctl = <<>>
    /\ die_on_error \in BOOLEAN
    /\ run_on_error \in Commands
    /\ status = Running
    /\ seen = FALSE
    /\ ev = NoEv
    /\ out = <<>>

-----------------------------------------------------------------------------
(* The registry holds crashdetect records, each under the handle it was    *)
(* constructed for. A record is told from the others of its handle by id.   *)
crashdetect(a, id) == [amx_ |-> a, id |-> id]

(* instances_.find(amx) != instances_.end() *)
Has(inst, a) == \E c \in inst : c.amx_ = a

(* iterator->second *)
Find(inst, a) == CHOOSE c \in inst : c.amx_ = a

(* new crashdetect(amx): a record that is none of the registry's *)
NewInstance(inst, a) ==
    crashdetect(a, CHOOSE id \in 1..(Cardinality(inst) + 1) :
                     /\ crashdetect(a, id) \notin inst
                     /\ \A j \in 1..(id - 1) : crashdetect(a, j) \in inst)

(* A registry that constructs a record on every call *)
GetInstanceAlwaysNew(inst, a) == inst \cup {NewInstance(inst, a)}

(* GetInstance, lines 58-66: the registry after the call *)
GetInstance(inst, a) ==
    IF ~Has(inst, a) THEN inst \cup {NewInstance(inst, a)} ELSE inst

(* GetInstance, lines 58-66: the record the call returns *)
Returned(inst, a) == Find(GetInstance(inst, a), a)

(* DestroyInstance, lines 69-71 *)
DestroyInstance(inst, a) == {c \in inst : c.amx_ # a}

-----------------------------------------------------------------------------
(* PrintAmxBacktrace, lines 261-356.  `v` is what the records of npCalls_   *)
(* read as; `in` is what the VM and the module resolver answer: the top     *)
(* instance's cip, the number of frames a walk yields, the address and the   *)
(* name the native table gives; `inst` is the registry.                      *)


Done(lines)       == [lines |-> lines, fate |-> "ok"]
Stop(lines, fate) == [lines |-> lines, fate |-> fate]

(* Whether the debug information of a script was loaded (lines 133-135):    *)
(* script 1 was found and carries it, script 2 was not found.               *)
IsLoaded(a) == a = 1

(* The address of a public function of a script *)
GetPublicAddr(a, index) == 16 * a + index

(* The VM stack pointer after a cell is pushed, and after one is popped.    *)
PushStack(stk) == stk - 1

(* A pop that leaves the stack pointer where it is *)
PopStackNone(stk) == stk

PopStack(stk)  == stk + 1

(* One printed frame of a VM segment: its number, return address and         *)
(* function address, the script name when it is printed, and the instance    *)
(* whose stack was walked for it.                                            *)
FrameLn(from, level, ret, addr, amx) ==
    [k |-> "frame", s |-> from, a |-> level, b |-> addr, ret |-> ret, amx |-> amx]

(* One printed native frame: its number, the index of the native function   *)
(* and the instance whose native table was read for it.                      *)
NativeLn(level, amx, index) ==
    [k |-> "native", s |-> "", a |-> level, b |-> index, amx |-> amx]

(* A segment that prints the walked frames only *)
SegmentFramesWalkedOnly(call, level, in) ==
    [i \in 1..in.walk |-> FrameLn("", level + i - 1, i, 0, call.amx)]

(* Lines 309-337: the frames of one public record.  The walker yields        *)
(* in.walk frames, frame i with return address i and a function address the  *)
(* walker determines (0 here); an empty walk is replaced by one frame at the *)
(* entry point with return address 0, and without debug information the      *)
(* oldest walked frame is rebuilt at the entry point.                        *)
SegmentFrames(call, level, in) ==
    LET epAddr == GetPublicAddr(call.amx, call.index)
        from   == IF AmxName(call.amx) = "" \/ IsLoaded(call.amx) THEN ""
                  ELSE AmxName(call.amx)
    IN  IF in.walk = 0
        THEN <<FrameLn(from, level, 0, epAddr, call.amx)>>
        ELSE [i \in 1..in.walk |->
                FrameLn(from, level + i - 1, i,
                        IF i = in.walk /\ ~IsLoaded(call.amx) THEN epAddr ELSE 0,
                        call.amx)]

RECURSIVE StitchCountingSkipped(_, _, _, _, _, _, _, _)
(* A loop that gives a number also to the native records it does not print *)
StitchCountingSkipped(v, n, cip, level, topAmx, inst, in, stk) ==
    IF n = 0 \/ cip = 0 \/ v[n].amx # topAmx
    THEN [lines |-> <<>>, fate |-> "ok", stk |-> stk]
    ELSE IF IsNative(v[n])
    THEN LET rest == StitchCountingSkipped(v, n - 1, cip, level + 1, topAmx, inst, in, stk)
         IN  [rest EXCEPT !.lines =
                 (IF in.address # 0 /\ in.name
                  THEN <<NativeLn(level, v[n].amx, v[n].index)>> ELSE <<>>) \o rest.lines]
    ELSE LET frames == SegmentFrames(v[n], level, in)
             rest   == StitchCountingSkipped(v, n - 1, v[n].cip, level + Len(frames),
                                             topAmx, inst, in, stk)
         IN  [rest EXCEPT !.lines = frames \o rest.lines]

RECURSIVE StitchSkippingForeign(_, _, _, _, _, _, _, _)
(* A loop that steps over the records of other instances and goes on *)
StitchSkippingForeign(v, n, cip, level, topAmx, inst, in, stk) ==
    IF n = 0 \/ cip = 0 THEN [lines |-> <<>>, fate |-> "ok", stk |-> stk]
    ELSE IF v[n].amx # topAmx
    THEN StitchSkippingForeign(v, n - 1, cip, level, topAmx, inst, in, stk)
    ELSE IF IsNative(v[n])
    THEN LET printed == in.address # 0 /\ in.name
             rest == StitchSkippingForeign(v, n - 1, cip,
                                           IF printed THEN level + 1 ELSE level,
                                           topAmx, inst, in, stk)
         IN  [rest EXCEPT !.lines =
                 (IF printed THEN <<NativeLn(level, v[n].amx, v[n].index)>> ELSE <<>>)
                     \o rest.lines]
    ELSE LET frames == SegmentFrames(v[n], level, in)
             rest   == StitchSkippingForeign(v, n - 1, v[n].cip, level + Len(frames),
                                             topAmx, inst, in, stk)
         IN  [rest EXCEPT !.lines = frames \o rest.lines]

RECURSIVE Stitch(_, _, _, _, _, _, _, _)
(* The while loop of lines 280-355: n records are left in the copy of the    *)
(* stack, stk is the stack pointer of the top instance.                      *)
Stitch(v, n, cip, level, topAmx, inst, in, stk) ==
    IF n = 0 \/ cip = 0 THEN [lines |-> <<>>, fate |-> "ok", stk |-> stk]
    ELSE LET call == v[n] IN
      IF call.amx # topAmx
      THEN IF level = 0
           THEN [lines |-> <<Ln("assert failed", "level != 0", 0, 0)>>,
                 fate |-> "abort", stk |-> stk]
           ELSE [lines |-> <<>>, fate |-> "ok", stk |-> stk]
      ELSE IF IsNative(call)
      THEN LET printed == in.address # 0 /\ in.name
               rest == Stitch(v, n - 1, cip, IF printed THEN level + 1 ELSE level,
                              topAmx, inst, in, stk)
           IN  [rest EXCEPT !.lines =
                   (IF printed THEN <<NativeLn(level, call.amx, call.index)>> ELSE <<>>)
                       \o rest.lines]
      ELSE IF ~Has(inst, call.amx)
      THEN [lines |-> <<>>, fate |-> "crash", stk |-> stk]
                    \* instances_[amx] inserts a null record; it is read
      ELSE LET pushed == PushStack(PushStack(stk))
               frames == SegmentFrames(call, level, in)
               popped == PopStack(PopStack(pushed))
               rest   == Stitch(v, n - 1, call.cip, level + Len(frames), topAmx,
                                inst, in, popped)
           IN  [rest EXCEPT !.lines = frames \o rest.lines]

(* PrintAmxBacktrace, lines 261-356: its lines, whether it returns, and the  *)
(* displacement of the top instance's stack pointer it leaves.               *)
PrintAmxBacktrace(v, inst, in) ==
    IF v = <<>> THEN [lines |-> <<>>, fate |-> "ok", stk |-> 0]
    ELSE IF in.cip = 0 THEN [lines |-> <<>>, fate |-> "ok", stk |-> 0]
    ELSE LET r == Stitch(v, Len(v), in.cip, 0, Top(v).amx, inst, in, 0)
         IN  [r EXCEPT !.lines = <<Ln("AMX backtrace:", "", 0, 0)>> \o r.lines]

(* PrintSystemBacktrace, lines 359-379: the header, then one line per frame *)
(* the native unwinder yields.                                              *)
PrintSystemBacktrace(nframes) ==
    <<Ln("System backtrace:", "", 0, 0)>> \o
        [i \in 1..nframes |-> Ln("sysframe", "", i - 1, 0)]

-----------------------------------------------------------------------------
(* What the VM, the native table and the unwinder answer when an operation  *)
(* reads them.  A field an operation does not read keeps its default.       *)

(* The index in the primary register and the bound operand of a BOUNDS      *)
(* instruction that failed: the index is negative or past the bound.         *)
Pris   == {-1, 1}
Bounds == {0, 1}

NoInput == [cip |-> 0, walk |-> 0, address |-> 0, name |-> FALSE,
            pri |-> 0, bound |-> 0, unresolved |-> 0]

(* What the native table answers for a record: no address; an address and  *)
(* no name; an address and a name.                                          *)
NativeAnswers == {<<0, FALSE>>, <<1, FALSE>>, <<1, TRUE>>}

(* The answers a backtrace of the records v reads: none when there is no    *)
(* record or cip is 0; the native table only when v holds a native record.  *)
BtInputs(v) ==
    {NoInput} \cup
    {[NoInput EXCEPT !.cip = c, !.walk = w, !.address = n[1], !.name = n[2]] :
        c \in (IF v = <<>> THEN {} ELSE Cips \ {0}), w \in Walks,
        n \in (IF \E p \in 1..Len(v) : IsNative(v[p]) THEN NativeAnswers
               ELSE {<<0, FALSE>>})}


(* A policy that never terminates *)
DieOrContinueNever == [lines |-> <<>>, fate |-> "ok"]

(* DieOrContinue, lines 96-101 *)
DieOrContinue ==
    IF die_on_error
    THEN Stop(<<Ln("Aborting...", "", 0, 0), Ln("exit", "", EXIT_FAILURE, 0)>>, "exit")
    ELSE Done(<<>>)

(* A switch with one wording for every bounds error *)
AugmentationOneWording(error, in) ==
    IF error = AMX_ERR_BOUNDS
    THEN <<Ln("past array upper bound", "", in.pri, in.bound)>>
    ELSE <<>>

(* The lines of the switch of HandleExecError, lines 185-222 *)
Augmentation(error, in) ==
    CASE error = AMX_ERR_BOUNDS ->
           IF in.pri < 0
           THEN <<Ln("negative index", "", in.pri, 0)>>
           ELSE <<Ln("past array upper bound", "", in.pri, in.bound)>>
      [] error = AMX_ERR_NOTFOUND ->
           [i \in 1..in.unresolved |-> Ln("unresolved native", "", i, 0)]
      [] error = AMX_ERR_STACKERR -> <<Ln("STK HEA", "", 0, 0)>>
      [] error = AMX_ERR_STACKLOW -> <<Ln("STK STP", "", 0, 0)>>
      [] error = AMX_ERR_HEAPLOW  -> <<Ln("HEA HLW", "", 0, 0)>>
      [] error = AMX_ERR_INVINSTR -> <<Ln("Unknown opcode", "", 0, 0)>>
      [] OTHER -> <<>>

(* A classifier that skips the backtrace for unresolved natives only *)
BacktracedUnlessNotFound(error) == error # AMX_ERR_NOTFOUND

(* The condition of lines 224-227 *)
Backtraced(error) ==
    /\ error # AMX_ERR_NOTFOUND
    /\ error # AMX_ERR_INDEX
    /\ error # AMX_ERR_CALLBACK
    /\ error # AMX_ERR_INIT

(* A sentinel test that forgets the index *)
BenignAnyIndex(index, error) == error = AMX_ERR_INDEX

(* The condition of line 178 *)
Benign(index, error) == error = AMX_ERR_INDEX /\ index = AMX_EXEC_GDK

(* Lines 232-235 *)
RunOnError ==
    IF run_on_error # "" THEN <<Ln("system", run_on_error, 0, 0)>> ELSE <<>>

(* The answers HandleExecError(index, error) reads *)
ErrInputs(index, error, v) ==
    IF Benign(index, error) THEN {NoInput}
    ELSE {[b EXCEPT !.pri = pd[1], !.bound = pd[2], !.unresolved = u] :
            b \in (IF Backtraced(error) THEN BtInputs(v) ELSE {NoInput}),
            pd \in (IF error = AMX_ERR_BOUNDS
                    THEN {x \in Pris \X Bounds : x[1] < 0 \/ x[1] > x[2]}
                    ELSE {<<0, 0>>}),
            u \in (IF error = AMX_ERR_NOTFOUND THEN 0..1 ELSE {0})}

(* The records HandleExecError(index, error) reads: those of the backtrace *)
ViewsRead(index, error) ==
    IF ~Benign(index, error) /\ Backtraced(error) THEN Views ELSE {npCalls_}

(* A classifier that runs the external command before the backtrace *)
HandleExecErrorCommandFirst(index, error, v, inst, in) ==
    IF Benign(index, error)
    THEN [caught |-> TRUE, traced |-> FALSE, stk |-> 0, lines |-> <<>>, fate |-> "ok"]
    ELSE LET bt == IF Backtraced(error) THEN PrintAmxBacktrace(v, inst, in)
                   ELSE [lines |-> <<>>, fate |-> "ok", stk |-> 0]
         IN  [caught |-> TRUE, traced |-> Backtraced(error), stk |-> bt.stk,
              lines  |-> <<Ln("Run time error", "", error, 0)>>
                           \o Augmentation(error, in) \o RunOnError \o bt.lines
                           \o DieOrContinue.lines,
              fate   |-> DieOrContinue.fate]

(* HandleExecError, lines 175-238: the latch it leaves, whether it called   *)
(* PrintAmxBacktrace, its effects and whether it returns.                   *)
HandleExecError(index, error, v, inst, in) ==
    IF Benign(index, error)
    THEN [caught |-> TRUE, traced |-> FALSE, stk |-> 0, lines |-> <<>>, fate |-> "ok"]
    ELSE LET head == <<Ln("Run time error", "", error, 0)>> \o Augmentation(error, in)
             bt   == IF Backtraced(error) THEN PrintAmxBacktrace(v, inst, in)
                     ELSE [lines |-> <<>>, fate |-> "ok", stk |-> 0]
             die  == DieOrContinue
         IN  IF bt.fate # "ok"
             THEN [caught |-> TRUE, traced |-> Backtraced(error), stk |-> bt.stk,
                   lines |-> head \o bt.lines, fate |-> bt.fate]
             ELSE [caught |-> TRUE, traced |-> Backtraced(error), stk |-> bt.stk,
                   lines  |-> head \o bt.lines \o RunOnError \o die.lines,
                   fate   |-> die.fate]

(* The process after an operation that ended with `fate` *)
After(fate) ==
    CASE fate = "ok"   -> Running
      [] fate = "exit" -> Exited(EXIT_FAILURE)
      [] OTHER         -> Killed(fate)

-----------------------------------------------------------------------------
(* DoAmxCallback, lines 141-149 *)

(* Lines 142-145: the record is built and pushed, prevCallback_ is entered. *)
DoAmxCallbackEnter(index) ==
    /\ status.alive
    /\ VmRuns
    /\ Len(ctl) < MaxDepth /\ Len(npCalls_) < MaxDepth
    /\ LET a    == ctl[Len(ctl)].amx
           call == Native(a, index)
       IN  /\ instances_' = GetInstance(instances_, a)
           /\ npCalls_' = Push(npCalls_, call)
           /\ ctl' = Append(ctl, Frame("DoAmxCallback", call, Len(npCalls_) + 1,
                                       errorCaught_))
           /\ ev' = Ev("DoAmxCallback enter", a, index, 0, FALSE, FALSE, <<>>)
           /\ out' = <<Ln("prevCallback_", "", a, index)>>
    /\ UNCHANGED <<errorCaught_, die_on_error, run_on_error, status, seen>>

(* A wrapper that reports success whatever the callback returned *)
CallbackResultNone(retcode) == AMX_ERR_NONE

(* Line 148 *)
CallbackResult(retcode) == retcode

(* Lines 145-148: prevCallback_ returned retcode. *)
DoAmxCallbackReturn(retcode) ==
    /\ status.alive
    /\ NativeRuns
    /\ LET f == ctl[Len(ctl)] IN
        /\ npCalls_' = Pop(npCalls_)
        /\ ctl' = Return(ctl)
        /\ ev' = Ev("DoAmxCallback", f.amx, f.index, CallbackResult(retcode),
                    FALSE, seen, <<f.latch0>>)
        /\ out' = <<Ln("prevCallback_ returned", "", retcode, 0)>>
    /\ UNCHANGED <<errorCaught_, instances_, die_on_error, run_on_error, status, seen>>

(* Line 145, when the native function ends by throwing: the activations of  *)
(* DoAmxCallback and of the DoAmxExec under it are unwound up to the native *)
(* function or host code that catches, k pairs of them; no statement after  *)
(* the delegated calls runs.                                                *)
NativeThrows(k) ==
    /\ status.alive
    /\ NativeRuns
    /\ 2 * k <= Len(ctl)
    /\ ctl' = SubSeq(ctl, 1, Len(ctl) - 2 * k)
    /\ ev' = Ev("unwind", ctl[Len(ctl)].amx, ctl[Len(ctl)].index, 0, FALSE, FALSE, <<>>)
    /\ out' = <<>>
    /\ UNCHANGED <<npCalls_, errorCaught_, instances_, die_on_error, run_on_error,
                   status, seen>>

-----------------------------------------------------------------------------
(* DoAmxExec, lines 151-166 *)

(* Lines 152-156: the record is built and pushed, amx_Exec is entered. *)
DoAmxExecEnter(a, index, cip) ==
    /\ status.alive
    /\ HostRuns \/ NativeRuns
    /\ Len(ctl) < MaxDepth /\ Len(npCalls_) < MaxDepth
    /\ instances_' = GetInstance(instances_, a)
    /\ npCalls_' = Push(npCalls_, Public(a, index, cip))
    /\ ctl' = Append(ctl, Frame("DoAmxExec", Public(a, index, cip),
                                Len(npCalls_) + 1, FALSE))
    /\ seen' = IF ctl = <<>> THEN FALSE ELSE seen
    /\ ev' = Ev("DoAmxExec enter", a, index, 0, FALSE, FALSE, <<>>)
    /\ out' = <<Ln("amx_Exec", "", a, index)>>
    /\ UNCHANGED <<errorCaught_, die_on_error, run_on_error, status>>

(* A wrapper that forwards every failure, latch or not *)
ForwardAnyFailure(retcode, caught) == retcode # AMX_ERR_NONE

(* The condition of line 157 *)
Forward(retcode, caught) == retcode # AMX_ERR_NONE /\ ~caught

(* amx_Error(amx, index, error): the exported hook that hands the error to  *)
(* the classifier of the instance.                                          *)
amx_Error(index, error, v, inst, in) == HandleExecError(index, error, v, inst, in)

(* Lines 156-165: amx_Exec returned retcode. *)
DoAmxExecReturn(retcode) ==
    /\ status.alive
    /\ VmRuns
    /\ LET f == ctl[Len(ctl)] IN
       IF Forward(retcode, errorCaught_)
       THEN \E v \in ViewsRead(f.index, retcode) :
            \E in \in ErrInputs(f.index, retcode, v) :
              LET inst == GetInstance(instances_, f.amx)
                  r    == amx_Error(f.index, retcode, v, inst, in)
              IN  /\ errorCaught_' = r.caught
                  /\ instances_' = inst
                  /\ status' = After(r.fate)
                  /\ out' = r.lines
                  /\ ev' = Ev("DoAmxExec", f.amx, f.index, retcode, TRUE, seen,
                              [traced |-> r.traced, cip |-> in.cip,
                               walk |-> in.walk, stk |-> r.stk,
                               pri |-> in.pri, bound |-> in.bound])
                  /\ seen' = TRUE
                  /\ IF r.fate = "ok"
                     THEN npCalls_' = Pop(npCalls_) /\ ctl' = Return(ctl)
                     ELSE UNCHANGED <<npCalls_, ctl>>
       ELSE /\ errorCaught_' = FALSE
            /\ npCalls_' = Pop(npCalls_)
            /\ ctl' = Return(ctl)
            /\ out' = <<>>
            /\ ev' = Ev("DoAmxExec", f.amx, f.index, retcode, FALSE, seen, <<>>)
            /\ UNCHANGED <<instances_, status, seen>>
    /\ UNCHANGED <<die_on_error, run_on_error>>

-----------------------------------------------------------------------------
(* DoAmxRelease, lines 168-173, and HandleReleaseError, lines 250-258 *)

(* A validator that accepts the address of the stack pointer itself *)
BadReleaseStrict(amx_addr, hlw, stk) == amx_addr < hlw \/ amx_addr > stk

(* The condition of line 169 *)
BadRelease(amx_addr, hlw, stk) == amx_addr < hlw \/ amx_addr >= stk

HandleReleaseError(address, nframes) ==
    <<Ln("Bad heap release detected:", "", 0, 0),
      Ln("is releasing memory out of heap", "", address, 0)>>
        \o PrintSystemBacktrace(nframes)

(* Line 172 *)
ReleaseResult(rc) == rc

(* A validator that blocks the release it reports *)
ReleaseEffectsBlocking(amx_addr, hlw, stk, rc, nframes) ==
    IF amx_addr < hlw \/ amx_addr >= stk
    THEN <<Ln("Bad heap release detected:", "", 0, 0),
           Ln("is releasing memory out of heap", "", amx_addr, 0),
           Ln("System backtrace:", "", 0, 0)>>
    ELSE <<Ln("amx_Release", "", amx_addr, rc)>>

(* The effects of lines 169-172: the report, if any, then the call of the  *)
(* release primitive, which returns rc.                                     *)
ReleaseEffects(amx_addr, hlw, stk, rc, nframes) ==
    (IF BadRelease(amx_addr, hlw, stk)
     THEN HandleReleaseError(amx_addr, nframes) ELSE <<>>)
        \o <<Ln("amx_Release", "", amx_addr, rc)>>

DoAmxRelease(a, amx_addr, hlw, stk, rc, nframes) ==
    /\ status.alive
    /\ instances_' = GetInstance(instances_, a)
    /\ out' = ReleaseEffects(amx_addr, hlw, stk, rc, nframes)
    /\ ev' = Ev("DoAmxRelease", a, amx_addr, ReleaseResult(rc), FALSE, FALSE,
                <<hlw, stk>>)
    /\ UNCHANGED <<npCalls_, errorCaught_, ctl, die_on_error, run_on_error,
                   status, seen>>

-----------------------------------------------------------------------------
(* SystemException, lines 74-82, with HandleException, lines 240-243, and   *)
(* SystemInterrupt, lines 85-93, with HandleInterrupt, lines 245-248.       *)

(* A handler that prints the system backtrace only when no instance is    *)
(* implicated                                                               *)
SystemFaultVmOnly(op, generic, executing, v, in, nframes) ==
    IF v # <<>>
    THEN [amx   |-> v[Len(v)].amx,
          inst  |-> GetInstance(instances_, v[Len(v)].amx),
          lines |-> <<Ln(executing, AmxName(v[Len(v)].amx), 0, 0)>>,
          fate  |-> "ok", stk |-> 0]
    ELSE [amx   |-> 0,
          inst  |-> instances_,
          lines |-> <<Ln(generic, "", 0, 0), Ln("System backtrace:", "", 0, 0)>>,
          fate  |-> "ok", stk |-> 0]

(* A handler that reaches the instance of the top record without GetInstance *)
SystemFaultNoGet(op, generic, executing, v, in, nframes) ==
    IF v # <<>>
    THEN LET amx == Top(v).amx
             bt  == PrintAmxBacktrace(v, instances_, in)
         IN  [amx   |-> amx,
              inst  |-> instances_,
              lines |-> <<Ln(executing, AmxName(amx), 0, 0)>> \o bt.lines
                          \o (IF bt.fate = "ok" THEN PrintSystemBacktrace(nframes)
                              ELSE <<>>),
              fate  |-> bt.fate, stk |-> bt.stk]
    ELSE [amx   |-> 0,
          inst  |-> instances_,
          lines |-> <<Ln(generic, "", 0, 0)>> \o PrintSystemBacktrace(nframes),
          fate  |-> "ok", stk |-> 0]

SystemFault(op, generic, executing, v, in, nframes) ==
    IF v # <<>>
    THEN LET amx  == Top(v).amx
             inst == GetInstance(instances_, amx)
             bt   == PrintAmxBacktrace(v, inst, in)
         IN  [amx   |-> amx,
              inst  |-> inst,
              lines |-> <<Ln(executing, AmxName(amx), 0, 0)>> \o bt.lines
                          \o (IF bt.fate = "ok" THEN PrintSystemBacktrace(nframes)
                              ELSE <<>>),
              fate  |-> bt.fate, stk |-> bt.stk]
    ELSE [amx   |-> 0,
          inst  |-> instances_,
          lines |-> <<Ln(generic, "", 0, 0)>> \o PrintSystemBacktrace(nframes),
          fate  |-> "ok", stk |-> 0]

Fault(op, generic, executing) ==
    /\ status.alive
    /\ \E v \in Views :
       \E in \in BtInputs(v) :
       \E nframes \in SysFrames :
         LET r == SystemFault(op, generic, executing, v, in, nframes)
         IN  /\ instances_' = r.inst
             /\ status' = After(r.fate)
             /\ out' = r.lines
             /\ ev' = Ev(op, r.amx, 0, 0, FALSE, FALSE,
                         [traced |-> v # <<>>, cip |-> in.cip, walk |-> in.walk,
                          stk |-> r.stk])
    /\ UNCHANGED <<npCalls_, errorCaught_, ctl, die_on_error, run_on_error, seen>>

SystemException ==
    Fault("SystemException", "Server crashed due to an unknown error",
          "Server crashed while executing")

SystemInterrupt ==
    Fault("SystemInterrupt", "Server received interrupt signal",
          "Server received interrupt signal while executing")

-----------------------------------------------------------------------------
(* The host's notifications that an instance was loaded or is torn down *)

Load(a) ==
    /\ status.alive
    /\ HostRuns \/ NativeRuns
    /\ instances_' = GetInstance(instances_, a)
    /\ ev' = Ev("GetInstance", a, 0, 0, FALSE, FALSE,
                [found |-> Has(instances_, a), c |-> Returned(instances_, a)])
    /\ out' = <<>>
    /\ UNCHANGED <<npCalls_, errorCaught_, ctl, die_on_error, run_on_error,
                   status, seen>>

Unload(a) ==
    /\ status.alive
    /\ HostRuns \/ NativeRuns
    /\ instances_' = DestroyInstance(instances_, a)
    /\ ev' = Ev("DestroyInstance", a, 0, 0, FALSE, FALSE, <<>>)
    /\ out' = <<>>
    /\ UNCHANGED <<npCalls_, errorCaught_, ctl, die_on_error, run_on_error,
                   status, seen>>

-----------------------------------------------------------------------------
(* The operations of the tracker, the wrappers, the classifier and the     *)
(* fault handlers, every delegated call ending by returning.                *)
Next ==
    \/ \E a \in AMXs : Load(a)
    \/ \E a \in AMXs : Unload(a)
    \/ \E a \in AMXs, index \in PublicIdx, cip \in Cips : DoAmxExecEnter(a, index, cip)
    \/ \E retcode \in RetCodes : DoAmxExecReturn(retcode)
    \/ \E index \in NativeIdx : DoAmxCallbackEnter(index)
    \/ \E retcode \in CallbackCodes : DoAmxCallbackReturn(retcode)
    \/ SystemException
    \/ SystemInterrupt

Spec == Init /\ [][Next]_vars

(* The wrappers alone, a native function also ending by throwing. *)
NextUnwind ==
    \/ \E a \in AMXs, index \in PublicIdx, cip \in Cips : DoAmxExecEnter(a, index, cip)
    \/ \E retcode \in RetCodes : DoAmxExecReturn(retcode)
    \/ \E index \in NativeIdx : DoAmxCallbackEnter(index)
    \/ \E retcode \in CallbackCodes : DoAmxCallbackReturn(retcode)
    \/ \E k \in 1..MaxDepth : NativeThrows(k)

SpecUnwind == Init /\ [][NextUnwind]_vars

(* A fault while records are left behind: the wrappers up to MaxStale        *)
(* records on npCalls_, a native function also ending by throwing, and the   *)
(* fault handlers.                                                           *)
NextStale ==
    \/ \E a \in AMXs, index \in PublicIdx, cip \in Cips :
          Len(npCalls_) < MaxStale /\ DoAmxExecEnter(a, index, cip)
    \/ \E retcode \in {AMX_ERR_NONE, AMX_ERR_BOUNDS} : DoAmxExecReturn(retcode)
    \/ \E index \in NativeIdx :
          Len(npCalls_) < MaxStale /\ DoAmxCallbackEnter(index)
    \/ \E retcode \in CallbackCodes : DoAmxCallbackReturn(retcode)
    \/ \E k \in 1..MaxDepth : NativeThrows(k)
    \/ SystemException
    \/ SystemInterrupt

(* The policy that lets the process go on after a report *)
InitStale == Init /\ ~die_on_error /\ run_on_error = ""

SpecStale == InitStale /\ [][NextStale]_vars

(* The wrappers alone, amx_Exec failing with every code the classifier      *)
(* tells apart.                                                             *)
NextClassify ==
    \/ \E a \in AMXs, index \in PublicIdx, cip \in Cips : DoAmxExecEnter(a, index, cip)
    \/ \E retcode \in {AMX_ERR_NONE} \cup AllErrorCodes : DoAmxExecReturn(retcode)
    \/ \E index \in NativeIdx : DoAmxCallbackEnter(index)
    \/ \E retcode \in CallbackCodes : DoAmxCallbackReturn(retcode)

SpecClassify == Init /\ [][NextClassify]_vars

(* The nestings of calls the wrappers build: an entry point called by the   *)
(* host or by a native function, a native function called by the script     *)
(* that runs.                                                               *)
Enterable(s) ==
    IF s = <<>> \/ IsNative(Top(s))
    THEN {Public(a, i, c) : a \in AMXs, i \in PublicIdx, c \in Cips}
    ELSE {Native(Top(s).amx, i) : i \in NativeIdx}

RECURSIVE Nestings(_)
Nestings(n) ==
    IF n = 0 THEN {<<>>}
    ELSE UNION {{Append(s, r) : r \in Enterable(s)} : s \in Nestings(n - 1)}

(* The state after the calls of a nesting were entered, none having failed *)
InitStitch ==
    /\ npCalls_ \in UNION {Nestings(n) : n \in 0..MaxNest}
    /\ ctl = [i \in 1..Len(npCalls_) |->
                Frame(IF IsNative(npCalls_[i]) THEN "DoAmxCallback" ELSE "DoAmxExec",
                      npCalls_[i], i, FALSE)]
    /\ instances_ = {crashdetect(npCalls_[i].amx, 1) : i \in 1..Len(npCalls_)}
    /\ errorCaught_ = FALSE
    /\ die_on_error = FALSE
    /\ run_on_error = ""
    /\ status = Running
    /\ seen = FALSE
    /\ ev = NoEv
    /\ out = <<>>

(* Backtraces of a nesting, taken by the fault handlers and by the          *)
(* classifier as the calls return.                                          *)
NextStitch ==
    \/ SystemException
    \/ SystemInterrupt
    \/ \E retcode \in RetCodes : DoAmxExecReturn(retcode)
    \/ \E retcode \in CallbackCodes : DoAmxCallbackReturn(retcode)

SpecStitch == InitStitch /\ [][NextStitch]_vars

(* The heap release validator alone *)
NextRelease ==
    \/ \E a \in AMXs : Load(a)
    \/ \E a \in AMXs : Unload(a)
    \/ \E a \in AMXs, amx_addr \in Addrs, hlw \in Addrs, stk \in Addrs,
          rc \in ReleaseCodes, nframes \in SysFrames :
          hlw <= stk /\ DoAmxRelease(a, amx_addr, hlw, stk, rc, nframes)

SpecRelease == Init /\ [][NextRelease]_vars

-----------------------------------------------------------------------------
(* Properties *)

Kinds(k) == {i \in 1..Len(out) : out[i].k = k}

(* C1: after any sequence of entries into and returns from DoAmxCallback   *)
(* and DoAmxExec, on any instances, npCalls_ holds exactly the records of   *)
(* the calls that have not returned, oldest first, one per call, whatever   *)
(* their instances: the stack that push-on-enter, pop-on-return yields.     *)
TrackerMatchesNesting ==
    npCalls_ = [i \in 1..Len(ctl) |-> RecordOf(ctl[i])]

(* A call on one instance has returned while calls of another instance,    *)
(* inside which it was nested, are still on the stack.                      *)
NestedAcrossInstances ==
    /\ ev.op = "DoAmxExec"
    /\ Len(npCalls_) = 2
    /\ npCalls_[1].amx # ev.amx
    /\ IsNative(npCalls_[2])

(* C2: every record on npCalls_ belongs to a wrapper call that has not     *)
(* ended: a call that ended, by returning or by being unwound, has popped   *)
(* its record.                                                              *)
EveryRecordPopped ==
    \A p \in 1..Len(npCalls_) : Live(p)

(* C3: when the classifier has run while a DoAmxExec call was in progress  *)
(* and the latch is set, and amx_Exec then returns a failure to DoAmxExec,  *)
(* DoAmxExec does not run the classifier again, reports nothing, clears     *)
(* the latch and returns.                                                   *)
DoubleFaultSuppressed ==
    [][(/\ VmRuns /\ ev'.op = "DoAmxExec"
        /\ ev'.code # AMX_ERR_NONE
        /\ seen /\ errorCaught_)
       => (/\ ~ev'.classified
           /\ out' = <<>>
           /\ ~errorCaught_'
           /\ status' = status
           /\ Len(ctl') = Len(ctl) - 1)]_vars

(* The outermost DoAmxExec returned a failure that had been classified     *)
(* while it was in progress, without classifying it again.                  *)
SuppressedReturn ==
    /\ ev.op = "DoAmxExec" /\ ctl = <<>>
    /\ ev.code # AMX_ERR_NONE
    /\ ev.seen /\ ~ev.classified
    /\ ~errorCaught_

(* C4: every top-level DoAmxExec whose amx_Exec returns a failure, no      *)
(* failure having been classified while it was in progress, runs the        *)
(* classifier.                                                              *)
EveryFailureClassified ==
    (/\ ev.op = "DoAmxExec" /\ ctl = <<>>
     /\ ev.code # AMX_ERR_NONE
     /\ ~ev.seen)
    => ev.classified

(* C5: DoAmxRelease reports a bad heap release exactly when the address    *)
(* is not in [hlw, stk).                                                    *)
ReleaseReportedIffOutOfHeap ==
    ev.op = "DoAmxRelease" =>
        ((Kinds("Bad heap release detected:") # {})
            <=> ~(ev.arg[1] <= ev.index /\ ev.index < ev.arg[2]))

(* A release at the stack pointer itself was reported. *)
ReleaseAtStkReported ==
    /\ ev.op = "DoAmxRelease"
    /\ ev.index = ev.arg[2] /\ ev.arg[1] < ev.arg[2]
    /\ Kinds("Bad heap release detected:") # {}

(* C6: DoAmxRelease calls the release primitive exactly once, with the     *)
(* address, as its last effect, reported or not, and returns the code the   *)
(* primitive returned.                                                      *)
ReleaseAlwaysForwarded ==
    ev.op = "DoAmxRelease" =>
        /\ Cardinality(Kinds("amx_Release")) = 1
        /\ out[Len(out)] = Ln("amx_Release", "", ev.index, ev.code)

(* A reported release was forwarded and its failure code returned. *)
ReportedReleaseForwarded ==
    /\ ev.op = "DoAmxRelease"
    /\ Kinds("Bad heap release detected:") # {}
    /\ Kinds("amx_Release") # {}
    /\ ev.code # AMX_ERR_NONE

FatalPolicyApplied ==
    (/\ ev.op = "DoAmxExec" /\ ev.classified
     /\ ~(ev.code = AMX_ERR_INDEX /\ ev.index = AMX_EXEC_GDK))
    => IF die_on_error
       THEN /\ ~status.alive /\ status.how = "exit" /\ status.code # 0
            /\ Len(out) >= 3
            /\ out[1].k = "Run time error"
            /\ out[Len(out) - 1].k = "Aborting..."
            /\ out[Len(out)].k = "exit" /\ out[Len(out)].a = status.code
            /\ Kinds("exit") = {Len(out)}
       ELSE /\ status.alive
            /\ Kinds("exit") = {} /\ Kinds("Aborting...") = {}

(* The process exited after a report with a backtrace. *)
ExitedAfterReport ==
    /\ ev.op = "DoAmxExec" /\ ev.classified
    /\ die_on_error /\ ~status.alive
    /\ Kinds("AMX backtrace:") # {}
    /\ Kinds("exit") # {}

(* C9: the classifier entered with AMX_ERR_INDEX and index AMX_EXEC_GDK    *)
(* has no effect and the process goes on, whatever die_on_error; entered    *)
(* with any other pair its first effect is the run time error line.         *)
SentinelSuppressed ==
    (ev.op = "DoAmxExec" /\ ev.classified)
    => IF ev.code = 20 /\ ev.index = -10
       THEN out = <<>> /\ status.alive
       ELSE out # <<>> /\ out[1] = Ln("Run time error", "", ev.code, 0)

(* The sentinel was suppressed although die_on_error is set. *)
SentinelSuppressedUnderFatalPolicy ==
    /\ ev.op = "DoAmxExec" /\ ev.classified
    /\ ev.code = 20 /\ ev.index = -10
    /\ die_on_error /\ run_on_error # ""
    /\ status.alive /\ out = <<>>

(* C10: SystemException and SystemInterrupt change neither the latch, the  *)
(* tracker nor the process status, and always end with the system           *)
(* backtrace; with a record on npCalls_ the instance is that of the top     *)
(* record and its "while executing" line and VM backtrace come first; with  *)
(* none, only the generic line comes first.                                 *)
FaultOps == {"SystemException", "SystemInterrupt"}

ExecutingLine(op) ==
    IF op = "SystemException" THEN "Server crashed while executing"
    ELSE "Server received interrupt signal while executing"

GenericLine(op) ==
    IF op = "SystemException" THEN "Server crashed due to an unknown error"
    ELSE "Server received interrupt signal"

SystemFaultsReport ==
    [][(ev'.op \in FaultOps) =>
        /\ errorCaught_' = errorCaught_
        /\ npCalls_' = npCalls_
        /\ status' = status
        /\ \E h \in 1..Len(out') :
            /\ out'[h].k = "System backtrace:"
            /\ \A i \in (h + 1)..Len(out') : out'[i].k = "sysframe"
            /\ \A i \in 1..(h - 1) : out'[i].k \notin {"System backtrace:", "exit"}
            /\ IF npCalls_ = <<>>
               THEN h = 2 /\ out'[1] = Ln(GenericLine(ev'.op), "", 0, 0)
               ELSE /\ h >= 2
                    /\ ev'.amx = npCalls_[Len(npCalls_)].amx
                    /\ out'[1] = Ln(ExecutingLine(ev'.op), AmxName(ev'.amx), 0, 0)
                    /\ \A i \in 2..(h - 1) :
                         out'[i].k \in {"AMX backtrace:", "frame", "native",
                                        "unresolved native"}]_vars

(* A crash with calls in flight printed the VM backtrace, then the system  *)
(* backtrace.                                                              *)
CrashReportedWithVmBacktrace ==
    /\ ev.op = "SystemException"
    /\ Len(npCalls_) >= 2
    /\ \E i \in Kinds("AMX backtrace:") : \E j \in Kinds("System backtrace:") : i < j
    /\ Kinds("native") # {}

(* The last operation was a DoAmxExec that ran the classifier on an error   *)
(* other than the benign sentinel.                                          *)
Classified ==
    /\ ev.op = "DoAmxExec" /\ ev.classified
    /\ ~(ev.code = AMX_ERR_INDEX /\ ev.index = AMX_EXEC_GDK)

(* C11: a classified error makes HandleExecError call PrintAmxBacktrace     *)
(* exactly when its code is none of native-not-found, index-not-found,      *)
(* callback-error, not-initialized; the backtrace header is printed exactly *)
(* when it is called and the instruction pointer read is not 0.             *)
BacktraceUnlessExempt ==
    Classified =>
        /\ ev.arg.traced <=> ev.code \notin {19, 20, 9, 22}
        /\ (Kinds("AMX backtrace:") # {}) <=> (ev.arg.traced /\ ev.arg.cip # 0)

(* An index-not-found error that is not the sentinel was reported without  *)
(* a backtrace.                                                             *)
IndexErrorWithoutBacktrace ==
    /\ Classified
    /\ ev.code = AMX_ERR_INDEX
    /\ ~ev.arg.traced
    /\ out = <<Ln("Run time error", "", AMX_ERR_INDEX, 0)>>

(* C12: the effects of a classification come in this order: the run time   *)
(* error line, the lines of the error's kind, the VM backtrace, the          *)
(* external command, the fatal policy; the command runs once for every       *)
(* classified error when run_on_error is set, backtrace or not, and never    *)
(* otherwise.                                                                *)
Phase(k) ==
    CASE k = "Run time error" -> 0
      [] k \in {"negative index", "past array upper bound", "unresolved native",
                "STK HEA", "STK STP", "HEA HLW", "Unknown opcode"} -> 1
      [] k \in {"AMX backtrace:", "frame", "native"} -> 2
      [] k = "system" -> 3
      [] k = "Aborting..." -> 4
      [] k = "exit" -> 5
      [] OTHER -> 6

ClassificationInOrder ==
    Classified =>
        /\ out # <<>> /\ Phase(out[1].k) = 0
        /\ \A i \in 1..Len(out) : Phase(out[i].k) <= 5
        /\ \A i \in 1..Len(out), j \in 1..Len(out) :
              i < j => Phase(out[i].k) <= Phase(out[j].k)
        /\ Cardinality(Kinds("Run time error")) = 1
        /\ IF run_on_error = "" THEN Kinds("system") = {}
           ELSE \E i \in 1..Len(out) :
                   Kinds("system") = {i} /\ out[i].s = run_on_error

(* A bounds error was reported in full: its own line, a backtrace, the     *)
(* command, then the exit.                                                  *)
FullCycle ==
    /\ Classified /\ ev.code = AMX_ERR_BOUNDS
    /\ Kinds("frame") # {} /\ Kinds("system") # {} /\ Kinds("exit") # {}
    /\ ~status.alive

(* The lines of the VM backtrace in the effects of the last operation *)
FrameLines == {i \in 1..Len(out) : out[i].k \in {"frame", "native"}}

(* C13: the frames one backtrace prints are numbered 0, 1, 2, ... in print *)
(* order, VM frames and native frames alike, without gap or repeat, also    *)
(* when a native record is not printed.                                     *)
FramesNumberedFromZero ==
    \A i \in FrameLines :
        out[i].a = Cardinality({j \in FrameLines : j < i})

(* A backtrace went through a native record it did not print and numbered  *)
(* the frames on both sides of it 0 and 1.                                  *)
NumberedAcrossSkippedNative ==
    /\ ev.op = "SystemException" /\ ev.arg.walk = 0
    /\ Len(npCalls_) >= 3
    /\ IsPublic(npCalls_[Len(npCalls_)])
    /\ IsNative(npCalls_[Len(npCalls_) - 1])
    /\ Kinds("native") = {}
    /\ Cardinality(Kinds("frame")) = 2
    /\ \E i \in Kinds("frame") : out[i].a = 1

(* The call stack the last operation took its backtrace of: a fault handler *)
(* leaves it as it is, a DoAmxExec that returned has popped its own record.  *)
StackAtPrint ==
    IF ev.op \in FaultOps \/ ~status.alive THEN npCalls_
    ELSE Append(npCalls_, Public(ev.amx, ev.index, 0))

(* The records from the top down to, and without, the youngest record of    *)
(* another instance.                                                        *)
TopRun(s) ==
    {p \in 1..Len(s) : \A q \in p..Len(s) : s[q].amx = s[Len(s)].amx}

(* C14: every frame of a backtrace comes from a record of the top record's *)
(* instance, and none from a record at or beneath the youngest record of    *)
(* another instance: there are at most as many native lines as native       *)
(* records above it and at most one walk of frames per public record above  *)
(* it.                                                                      *)
NeverAcrossInstances ==
    (ev.op \in FaultOps \/ (ev.op = "DoAmxExec" /\ ev.classified)) =>
        LET s    == StackAtPrint
            run  == TopRun(s)
            most == IF ev.arg.walk = 0 THEN 1 ELSE ev.arg.walk
        IN  FrameLines # {} =>
              /\ \A i \in FrameLines : out[i].amx = s[Len(s)].amx
              /\ Cardinality(Kinds("native"))
                    <= Cardinality({p \in run : IsNative(s[p])})
              /\ Cardinality(Kinds("frame"))
                    <= most * Cardinality({p \in run : IsPublic(s[p])})

(* A backtrace stopped at the record of another instance although older    *)
(* records of the top instance lie beneath it.                              *)
StoppedAboveOlderRecords ==
    /\ ev.op = "SystemException" /\ ev.arg.cip # 0
    /\ Len(npCalls_) = 5
    /\ npCalls_[5].cip # 0
    /\ npCalls_[4].amx # npCalls_[5].amx
    /\ npCalls_[1].amx = npCalls_[5].amx /\ npCalls_[1].cip # 0
    /\ Cardinality(FrameLines) = 1

(* C15: when a backtrace is printed, the innermost record is an entry point *)
(* and the walk of its segment yields no frame, the first line after the     *)
(* header is one frame numbered 0 at the address of that entry point, with   *)
(* no return address, and it is the only frame of that segment.              *)
EntryPointSynthesized ==
    (/\ ev.op \in FaultOps \/ (ev.op = "DoAmxExec" /\ ev.classified)
     /\ Kinds("AMX backtrace:") # {}
     /\ IsPublic(StackAtPrint[Len(StackAtPrint)])
     /\ ev.arg.walk = 0)
    => LET s   == StackAtPrint
           top == s[Len(s)]
           h   == CHOOSE i \in Kinds("AMX backtrace:") : TRUE
       IN  /\ Kinds("AMX backtrace:") = {h}
           /\ h < Len(out)
           /\ out[h + 1] = FrameLn(out[h + 1].s, 0, 0,
                                   GetPublicAddr(top.amx, top.index), top.amx)
           /\ Cardinality(Kinds("frame"))
                 <= Cardinality({p \in TopRun(s) : IsPublic(s[p])})

(* A crash inside an entry point of script 2 before any frame was           *)
(* established was reported with the entry point as frame 0.                 *)
EntryPointReported ==
    /\ ev.op = "SystemException" /\ ev.arg.walk = 0 /\ ev.arg.cip # 0
    /\ npCalls_ # <<>> /\ IsPublic(npCalls_[Len(npCalls_)])
    /\ Len(out) >= 3
    /\ out[3].k = "frame" /\ out[3].ret = 0
    /\ out[3].b = GetPublicAddr(2, AMX_EXEC_GDK)
    /\ Cardinality(Kinds("frame")) = 1

(* C16: a classified bounds error with index I in the primary register and *)
(* bound B in the instruction reports, right after the run time error line, *)
(* 'negative index I' when I < 0 and 'index I past array upper bound B'     *)
(* otherwise, and only one of the two; no other error reports either.       *)
BoundsWordings == Kinds("negative index") \cup Kinds("past array upper bound")

BoundsWording ==
    Classified =>
        IF ev.code = 4
        THEN /\ BoundsWordings = {2}
             /\ out[2] = IF ev.arg.pri < 0
                         THEN Ln("negative index", "", ev.arg.pri, 0)
                         ELSE Ln("past array upper bound", "", ev.arg.pri, ev.arg.bound)
        ELSE BoundsWordings = {}

(* A negative index was reported as such. *)
NegativeIndexReported ==
    /\ Classified /\ ev.code = AMX_ERR_BOUNDS
    /\ ev.arg.pri < 0 /\ ev.arg.bound = 1
    /\ out[2].k = "negative index" /\ out[2].a = ev.arg.pri

(* C17: the registry holds at most one record per handle; GetInstance      *)
(* returns the record the registry holds for the handle, leaving the        *)
(* registry as it is, and when it holds none inserts one new record for     *)
(* the handle and returns it; DestroyInstance removes the handle's record   *)
(* and nothing else, and changes nothing when the handle has none. A second *)
(* GetInstance with no DestroyInstance in between so returns the record of  *)
(* the first.                                                               *)
RegistryStep ==
    /\ \A c, d \in instances_' : c.amx_ = d.amx_ => c = d
    /\ ev'.op = "GetInstance" =>
          LET a == ev'.amx
              c == ev'.arg.c
          IN  /\ c.amx_ = a
              /\ IF Has(instances_, a)
                 THEN ev'.arg.found /\ c \in instances_ /\ instances_' = instances_
                 ELSE ~ev'.arg.found /\ c \notin instances_
                      /\ instances_' = instances_ \cup {c}
    /\ ev'.op = "DestroyInstance" =>
          /\ ~Has(instances_', ev'.amx)
          /\ instances_' \subseteq instances_
          /\ \A c \in instances_ : c.amx_ # ev'.amx => c \in instances_'

OneRecordPerHandle == [][RegistryStep]_vars

(* GetInstance returned the record the registry already held for script 1, *)
(* script 2 having its own.                                                 *)
ExistingRecordReturned ==
    /\ ev.op = "GetInstance" /\ ev.amx = 1 /\ ev.arg.found
    /\ ev.arg.c \in instances_
    /\ Has(instances_, 2)

(* C18: the assertion of line 286 never fails: whenever the loop reaches a *)
(* record of an instance other than the top record's, a frame has been      *)
(* printed, so the process is never ended by the failed assertion.          *)
AssertionHolds == status.how # "abort"

(* Every record of npCalls_ refers to an instance that has a record in the *)
(* registry.                                                                *)
Registered == \A p \in 1..Len(npCalls_) : Has(instances_, npCalls_[p].amx)

(* C19, as stated: every record of npCalls_ refers to an instance that has *)
(* a record in instances_, whatever the order of GetInstance,               *)
(* DestroyInstance, the wrappers and the faults.                            *)
RecordsRegistered == Registered

(* C19, amended: a record refers to a registered instance when it is       *)
(* pushed; only DestroyInstance, called while calls are in flight, leaves   *)
(* records of an instance the registry no longer holds. The lookups of      *)
(* PrintAmxBacktrace still find a record: they are made for the instance of *)
(* the top record only, which the fault handlers and the classifier reach   *)
(* through GetInstance, so no lookup inserts an empty entry and reads it.    *)
LookupsFindRecord ==
    [][/\ status'.how # "crash"
       /\ Len(npCalls_') > Len(npCalls_) => Has(instances_', Top(npCalls_').amx)
       /\ (ev'.op \in FaultOps /\ npCalls_' # <<>>)
             => Has(instances_', Top(npCalls_').amx)
       /\ (ev'.op = "DoAmxExec" /\ ev'.classified) => Has(instances_', ev'.amx)
       /\ (Registered /\ ~Registered') => ev'.op = "DestroyInstance"]_vars

(* A backtrace was printed for script 2 while a call of script 1, whose    *)
(* record the registry no longer holds, was in flight beneath it.           *)
BacktraceOverDestroyedInstance ==
    /\ ev.op = "SystemException" /\ status.alive
    /\ Len(npCalls_) = 3 /\ npCalls_[3].amx = 2
    /\ npCalls_[1].amx = 1 /\ ~Has(instances_, 1)
    /\ Kinds("frame") # {}

(* C20: PrintAmxBacktrace changes neither npCalls_ nor errorCaught_, and   *)
(* leaves the stack pointer of the top instance where it found it, each     *)
(* push of cip and frm being undone by two pops. A fault handler, which     *)
(* does nothing else to them, leaves npCalls_ and errorCaught_ as they      *)
(* were; the classifier sets the latch itself (line 176) and DoAmxExec pops *)
(* its own record after it (line 163), the records beneath staying as they  *)
(* were.                                                                    *)
BacktraceObservesOnly ==
    [][/\ ev'.op \in FaultOps
             => /\ npCalls_' = npCalls_
                /\ errorCaught_' = errorCaught_
                /\ ev'.arg.stk = 0
       /\ (ev'.op = "DoAmxExec" /\ ev'.classified)
             => /\ npCalls_' = SubSeq(npCalls_, 1, Len(npCalls_) - 1)
                /\ ev'.arg.stk = 0]_vars

(* A backtrace walked two VM segments of script 1, pushing and popping     *)
(* cip and frm for each, with a native frame between them.                  *)
TwoSegmentsWalked ==
    /\ ev.op = "SystemException" /\ ev.arg.walk = 2 /\ ev.arg.stk = 0
    /\ Len(npCalls_) = 3 /\ \A p \in 1..3 : npCalls_[p].amx = 1
    /\ Cardinality(Kinds("frame")) = 4
    /\ Cardinality(Kinds("native")) = 1

====
